---- MODULE Spec2Model ----
(***************************************************************************)
(* Model of yura-backend (src/app.py): the /procesar_informe endpoint      *)
(* (upload -> transcription -> structuring -> rendering -> response) and   *)
(* the document renderer generar_docx_desde_json.                          *)
(*                                                                         *)
(* JSON values (the result of json.loads) are tagged records:              *)
(*   Str(s)  a string          StrC(c) a string given by its characters    *)
(*   Num(n)  an integer        Obj(q)  a dict, as the ordered sequence of  *)
(*   List(l) a list                    its (key, value) items              *)
(*   Null    None              Err     "an exception was raised"           *)
(***************************************************************************)
EXTENDS Integers, Sequences, FiniteSets, TLC

Str(s)  == [t |-> "str", s |-> s]
StrC(c) == [t |-> "str", c |-> c]
Num(n)  == [t |-> "int", n |-> n]
Obj(q)  == [t |-> "obj", o |-> q]
List(l) == [t |-> "list", l |-> l]
Null    == [t |-> "null"]
Err     == [t |-> "err"]
KV(k, v) == [k |-> k, v |-> v]

IsErr(v) == v.t = "err"

\* Python truthiness of a JSON value (if valor: / any(...)).
Truthy(v) ==
    CASE v.t = "str"  -> IF "c" \in DOMAIN v THEN v.c # <<>> ELSE v.s # ""
      [] v.t = "int"  -> v.n # 0
      [] v.t = "obj"  -> v.o # <<>>
      [] v.t = "list" -> v.l # <<>>
      [] v.t = "null" -> FALSE
      [] v.t = "err"  -> FALSE

HasKey(d, k) == \E i \in 1..Len(d.o) : d.o[i].k = k
Lookup(d, k) == d.o[CHOOSE i \in 1..Len(d.o) : d.o[i].k = k].v

\* get without its default: a missing key raises, as d[k] does.
getMut(d, k, def) ==
    IF d.t # "obj" THEN Err
    ELSE IF HasKey(d, k) THEN Lookup(d, k) ELSE Err

\* d.get(k, def): AttributeError unless d is a dict.
get(d, k, def) ==
    IF d.t # "obj" THEN Err
    ELSE IF HasKey(d, k) THEN Lookup(d, k) ELSE def

\* d[k]: KeyError when the key is missing (TypeError unless d is a dict).
getitem(d, k) ==
    IF d.t # "obj" THEN Err
    ELSE IF HasKey(d, k) THEN Lookup(d, k) ELSE Err

\* d.values(): AttributeError unless d is a dict.
values(d) ==
    IF d.t # "obj" THEN Err
    ELSE List([i \in 1..Len(d.o) |-> d.o[i].v])

\* any(iterable) over the result of values().
any(vs) == IF IsErr(vs) THEN FALSE ELSE \E i \in 1..Len(vs.l) : Truthy(vs.l[i])

\* str(x) / f"{x}" for the value types the reports carry.
PyStr(v) ==
    CASE v.t = "str" /\ "s" \in DOMAIN v -> v.s
      [] v.t = "int"  -> ToString(v.n)
      [] v.t = "null" -> "None"

\* One run of a paragraph (python-docx add_run + font settings).
agregar_texto_negrita(paragraph, texto, fuente) ==
    Append(paragraph, [text |-> texto, bold |-> TRUE, font |-> "Arial", size |-> fuente])

agregar_texto(paragraph, texto, fuente) ==
    Append(paragraph, [text |-> texto, bold |-> FALSE, font |-> "Arial", size |-> fuente])


(***************************************************************************)
(* datetime.fromisoformat / strftime, on the characters of the string.     *)
(* Forms covered: YYYY-MM-DD, YYYY-MM-DD?HH, YYYY-MM-DD?HH:MM and          *)
(* YYYY-MM-DD?HH:MM:SS (no fraction, no UTC offset).                       *)
(***************************************************************************)
DigitVal(ch) ==
    CASE ch = "0" -> 0 [] ch = "1" -> 1 [] ch = "2" -> 2 [] ch = "3" -> 3
      [] ch = "4" -> 4 [] ch = "5" -> 5 [] ch = "6" -> 6 [] ch = "7" -> 7
      [] ch = "8" -> 8 [] ch = "9" -> 9 [] OTHER -> -1

\* Value of the digits c[i..j], or -1 when one of them is not a digit.
RECURSIVE DigitsVal(_, _, _)
DigitsVal(c, i, j) ==
    IF i > j THEN 0
    ELSE LET hi == DigitsVal(c, i, j - 1)
             lo == DigitVal(c[j])
         IN  IF hi < 0 \/ lo < 0 THEN -1 ELSE 10 * hi + lo

IsLeap(y) == y % 4 = 0 /\ (y % 100 # 0 \/ y % 400 = 0)

DaysInMonth(y, m) ==
    IF m = 2 THEN (IF IsLeap(y) THEN 29 ELSE 28)
    ELSE IF m \in {4, 6, 9, 11} THEN 30 ELSE 31

RECURSIVE DaysBeforeMonth(_, _)
DaysBeforeMonth(y, m) ==
    IF m <= 1 THEN 0 ELSE DaysBeforeMonth(y, m - 1) + DaysInMonth(y, m - 1)

DaysBeforeYear(y) ==
    LET p == y - 1 IN p * 365 + (p \div 4) - (p \div 100) + (p \div 400)

\* date.weekday(): Monday = 0.
Weekday(y, m, d) == (DaysBeforeYear(y) + DaysBeforeMonth(y, m) + d + 6) % 7

NoDate == [ok |-> FALSE, y |-> 0, m |-> 0, d |-> 0, H |-> 0, M |-> 0]

\* datetime.fromisoformat(fecha_iso); ok = FALSE stands for the exception
\* (TypeError for a non-string, ValueError for a malformed or out-of-range one).
fromisoformat(v) ==
    IF v.t # "str" \/ "c" \notin DOMAIN v THEN NoDate
    ELSE LET c == v.c
             n == Len(c)
             y == DigitsVal(c, 1, 4)
             m == DigitsVal(c, 6, 7)
             d == DigitsVal(c, 9, 10)
             H == IF n >= 13 THEN DigitsVal(c, 12, 13) ELSE 0
             M == IF n >= 16 THEN DigitsVal(c, 15, 16) ELSE 0
             S == IF n >= 19 THEN DigitsVal(c, 18, 19) ELSE 0
         IN  IF /\ n \in {10, 13, 16, 19}
                /\ c[5] = "-" /\ c[8] = "-"
                /\ (n >= 16 => c[14] = ":")
                /\ (n >= 19 => c[17] = ":")
                /\ y >= 1 /\ m >= 1 /\ m <= 12
                /\ d >= 1 /\ d <= DaysInMonth(y, m)
                /\ H >= 0 /\ H <= 23 /\ M >= 0 /\ M <= 59 /\ S >= 0 /\ S <= 59
             THEN [ok |-> TRUE, y |-> y, m |-> m, d |-> d, H |-> H, M |-> M]
             ELSE NoDate

\* dt.strftime("%A") in the default (C) locale.
DayName(w) ==
    CASE w = 0 -> "Monday" [] w = 1 -> "Tuesday" [] w = 2 -> "Wednesday"
      [] w = 3 -> "Thursday" [] w = 4 -> "Friday" [] w = 5 -> "Saturday"
      [] w = 6 -> "Sunday"

traducir_dia(dia_en) ==
    CASE dia_en = "Monday" -> "Lunes" [] dia_en = "Tuesday" -> "Martes"
      [] dia_en = "Wednesday" -> "Miércoles" [] dia_en = "Thursday" -> "Jueves"
      [] dia_en = "Friday" -> "Viernes" [] dia_en = "Saturday" -> "Sábado"
      [] dia_en = "Sunday" -> "Domingo" [] OTHER -> dia_en

\* %d, %m, %y, %H, %M: two digits, zero padded.
Pad2(n) == IF n < 10 THEN "0" \o ToString(n) ELSE ToString(n)

EmptyObj == Obj(<<>>)

(***************************************************************************)
(* generar_docx_desde_json, column by column.  Each operator returns       *)
(* [raised, runs]: raised says an exception left the function.             *)
(***************************************************************************)
RECURSIVE VitalRuns(_, _, _)
VitalRuns(signos_vitales, keys, p) ==
    IF keys = <<>> THEN p
    ELSE LET key   == Head(keys)
             valor == get(signos_vitales, key, Null)
             p2    == IF Truthy(valor)
                      THEN agregar_texto(agregar_texto_negrita(p, key \o ": ", 8),
                                         PyStr(valor) \o "\n", 8)
                      ELSE p
         IN  VitalRuns(signos_vitales, Tail(keys), p2)

\* Column 1 without the try/except around fromisoformat.
Columna1Mut(data) ==
    LET fecha_iso == get(data, "fecha_hora", Str(""))
        dt == fromisoformat(fecha_iso)
        signos_vitales == get(data, "signos_vitales", EmptyObj)
        p1 == agregar_texto_negrita(<<>>, traducir_dia(DayName(Weekday(dt.y, dt.m, dt.d))) \o "\n", 8)
        p2 == agregar_texto(p1, Pad2(dt.d) \o "/" \o Pad2(dt.m) \o "/" \o Pad2(dt.y % 100) \o "\n", 8)
        p3 == agregar_texto(p2, Pad2(dt.H) \o ":" \o Pad2(dt.M) \o "\n\n", 8)
        raised == data.t # "obj" \/ ~dt.ok \/ signos_vitales.t # "obj"
    IN  [raised |-> raised,
         runs |-> IF raised THEN <<>>
                  ELSE VitalRuns(signos_vitales, <<"PA", "FC", "FR", "O2">>, p3)]

Columna1(data) ==
    LET fecha_iso == get(data, "fecha_hora", Str(""))
        dt == fromisoformat(fecha_iso)
        dia_semana == IF dt.ok THEN traducir_dia(DayName(Weekday(dt.y, dt.m, dt.d))) ELSE ""
        fecha_formateada ==
            IF dt.ok THEN Pad2(dt.d) \o "/" \o Pad2(dt.m) \o "/" \o Pad2(dt.y % 100) ELSE ""
        hora == IF dt.ok THEN Pad2(dt.H) \o ":" \o Pad2(dt.M) ELSE ""
        signos_vitales == get(data, "signos_vitales", EmptyObj)
        p == (IF dia_semana # "" THEN agregar_texto_negrita(<<>>, dia_semana \o "\n", 8) ELSE <<>>)
             \o (IF fecha_formateada # ""
                 THEN agregar_texto(<<>>, fecha_formateada \o "\n", 8) ELSE <<>>)
             \o (IF hora # "" THEN agregar_texto(<<>>, hora \o "\n\n", 8) ELSE <<>>)
        raised == data.t # "obj" \/ IsErr(fecha_iso) \/ signos_vitales.t # "obj"
    IN  [raised |-> raised,
         runs |-> IF raised THEN <<>>
                  ELSE VitalRuns(signos_vitales, <<"PA", "FC", "FR", "O2">>, p)]

\* str.upper() on the diagnosis strings the reports carry.
Upper(s) ==
    CASE s = "neumonia" -> "NEUMONIA"
      [] s = "hta" -> "HTA"
      [] s = "" -> ""

\* A value used as text (concatenated, joined or handed to add_run) must be a str.
IsText(v) == v.t = "str" /\ "s" \in DOMAIN v

\* The bullet character U+2022 that starts each diagnosis line.
Bullet == "<U+2022>"

RECURSIVE DiagRuns(_, _)
DiagRuns(diags, p) ==
    IF diags = <<>> THEN p
    ELSE DiagRuns(Tail(diags), agregar_texto(p, Bullet \o " " \o Upper(Head(diags).s) \o "\n", 8))

campos_fisicos ==
    << KV("cuello", "Cuello"), KV("torax_anterior", "Tórax anterior"),
       KV("torax_posterior", "Tórax posterior"), KV("abdomen", "Abdomen"),
       KV("genitourinario", "Genitourinario"), KV("extremidades", "Extremidades") >>

\* The regional findings with "if valor is not None" in place of "if valor".
RECURSIVE FisicoRunsMut(_, _, _)
FisicoRunsMut(evolucion, campos, p) ==
    IF campos = <<>> THEN p
    ELSE LET valor == get(evolucion, Head(campos).k, Null)
             p2 == IF valor.t # "null"
                   THEN agregar_texto(agregar_texto_negrita(p, Head(campos).v \o ": ", 8),
                                      PyStr(valor) \o "\n", 8)
                   ELSE p
         IN  FisicoRunsMut(evolucion, Tail(campos), p2)

RECURSIVE FisicoRuns(_, _, _)
FisicoRuns(evolucion, campos, p) ==
    IF campos = <<>> THEN p
    ELSE LET valor == get(evolucion, Head(campos).k, Null)
             p2 == IF Truthy(valor)
                   THEN agregar_texto(agregar_texto_negrita(p, Head(campos).v \o ": ", 8),
                                      PyStr(valor) \o "\n", 8)
                   ELSE p
         IN  FisicoRuns(evolucion, Tail(campos), p2)

\* ", ".join(enb_texto)
RECURSIVE Join(_)
Join(q) ==
    IF Len(q) = 0 THEN ""
    ELSE IF Len(q) = 1 THEN q[1]
    ELSE q[1] \o ", " \o Join(Tail(q))

Columna2(data) ==
    LET descripcion  == get(data, "descripcion_paciente", Str(""))
        diagnosticos == get(data, "diagnosticos", List(<<>>))
        evolucion    == get(data, "evolucion", EmptyObj)
        neurologico  == get(evolucion, "neurologico", EmptyObj)
        estado     == get(neurologico, "estado", Null)
        foco_motor == get(neurologico, "foco_motor", Null)
        glasgow    == get(neurologico, "glasgow", Null)
        enb_texto ==
            (IF Truthy(estado) THEN <<getitem(neurologico, "estado").s>> ELSE <<>>)
            \o (IF Truthy(foco_motor) THEN <<getitem(neurologico, "foco_motor").s>> ELSE <<>>)
            \o (IF Truthy(glasgow)
                THEN <<"Glasgow " \o PyStr(getitem(neurologico, "glasgow"))>> ELSE <<>>)
        bh == get(data, "BH", Str(""))
        rd == get(data, "RD", Str(""))
        \* the runs each statement adds to p_notas, in program order
        p_notas ==
            (IF Truthy(descripcion)
             THEN agregar_texto(<<>>, descripcion.s \o "\n\n", 8) ELSE <<>>)
            \o (IF Truthy(diagnosticos)
                THEN agregar_texto(
                         DiagRuns(diagnosticos.l, agregar_texto_negrita(<<>>, "DIAGNÓSTICOS:\n", 8)),
                         "\n", 8)
                ELSE <<>>)
            \o (IF Truthy(get(evolucion, "estado_general", Null))
                THEN agregar_texto(agregar_texto_negrita(<<>>, "S: ", 8),
                                   PyStr(getitem(evolucion, "estado_general")) \o "\n\n", 8)
                ELSE <<>>)
            \o FisicoRuns(evolucion, campos_fisicos, <<>>)
            \o (IF Truthy(get(evolucion, "EFG", Null))
                THEN agregar_texto(agregar_texto_negrita(<<>>, "\nEFG: ", 8),
                                   PyStr(getitem(evolucion, "EFG")) \o "\n", 8)
                ELSE <<>>)
            \o (IF Truthy(neurologico) /\ any(values(neurologico)) /\ enb_texto # <<>>
                THEN agregar_texto(agregar_texto_negrita(<<>>, "\nENB: ", 8),
                                   Join(enb_texto) \o "\n", 8)
                ELSE <<>>)
            \o (IF Truthy(bh)
                THEN agregar_texto(agregar_texto_negrita(<<>>, "\nBH: ", 8), PyStr(bh) \o "\n", 8)
                ELSE <<>>)
            \o (IF Truthy(rd)
                THEN agregar_texto(agregar_texto_negrita(<<>>, "\nRD: ", 8), PyStr(rd) \o "\n", 8)
                ELSE <<>>)
        raised ==
            \/ data.t # "obj"
            \/ (\E v \in {descripcion, diagnosticos, bh, rd} : IsErr(v))
            \/ (Truthy(descripcion) /\ ~IsText(descripcion))
            \/ (Truthy(diagnosticos) /\ diagnosticos.t = "int")
            \/ (Truthy(diagnosticos) /\ diagnosticos.t = "list"
                /\ \E i \in 1..Len(diagnosticos.l) : ~IsText(diagnosticos.l[i]))
            \/ evolucion.t # "obj"
            \/ (Truthy(neurologico) /\ neurologico.t # "obj")
            \/ (Truthy(estado) /\ ~IsText(estado))
            \/ (Truthy(foco_motor) /\ ~IsText(foco_motor))
    IN  [raised |-> raised, runs |-> IF raised THEN <<>> ELSE p_notas]

\* The items a for loop visits: the elements of a list, none for "" or {}.
Iter(v) ==
    CASE v.t = "list" -> v.l
      [] v.t \in {"str", "obj"} /\ ~Truthy(v) -> <<>>

RECURSIVE OrdenRuns(_, _, _)
OrdenRuns(ordenes, i, p) ==
    IF i > Len(ordenes) THEN p
    ELSE OrdenRuns(ordenes, i + 1,
                   agregar_texto(p, ToString(i) \o ". " \o PyStr(ordenes[i]) \o "\n", 8))

\* The balance lines without the "if val" filter.
RECURSIVE BalanceRunsMut(_, _)
BalanceRunsMut(items, p) ==
    IF items = <<>> THEN p
    ELSE BalanceRunsMut(Tail(items),
                        agregar_texto(p, Head(items).k \o ": " \o PyStr(Head(items).v) \o "\n", 8))

\* for key, val in d.items(): if val: "KEY: val"
RECURSIVE BalanceRuns(_, _)
BalanceRuns(items, p) ==
    IF items = <<>> THEN p
    ELSE BalanceRuns(Tail(items),
                     IF Truthy(Head(items).v)
                     THEN agregar_texto(p, Head(items).k \o ": " \o PyStr(Head(items).v) \o "\n", 8)
                     ELSE p)

Columna3(data) ==
    LET ordenes  == get(data, "ordenes_medicas", List(<<>>))
        ingresos == get(data, "ingresos", EmptyObj)
        egresos  == get(data, "egresos", EmptyObj)
        hay_ingresos == any(values(ingresos))
        hay_egresos  == any(values(egresos))
        \* the runs each statement adds to p_ordenes, in program order
        p_ordenes ==
            OrdenRuns(Iter(ordenes), 1, <<>>)
            \o (IF hay_ingresos \/ hay_egresos
                THEN agregar_texto(<<>>, "\n", 8)
                     \o (IF hay_ingresos
                         THEN BalanceRuns(ingresos.o,
                                          agregar_texto_negrita(<<>>, "INGRESOS:\n", 8))
                         ELSE <<>>)
                     \o (IF hay_egresos
                         THEN BalanceRuns(egresos.o,
                                          agregar_texto_negrita(<<>>, "\nEGRESOS:\n", 8))
                         ELSE <<>>)
                ELSE <<>>)
        raised == data.t # "obj" \/ ordenes.t \in {"int", "null", "err"}
                  \/ ingresos.t # "obj" \/ egresos.t # "obj"
    IN  [raised |-> raised, runs |-> IF raised THEN <<>> ELSE p_ordenes]

encabezado_paciente == <<"AP PATERNO", "AP MATERNO", "NOMBRES", "HISTORIA CLÍNICA", "NO CAMA">>
encabezados == <<"FECHA Y HORA", "NOTAS DE EVOLUCIÓN", "ÓRDENES MÉDICAS">>

\* The data row of the patient table: one run per cell, 9pt.
TablaPaciente(data) ==
    LET paciente == get(data, "paciente", EmptyObj)
        ap == get(paciente, "apellido_paterno", Str(""))
        am == get(paciente, "apellido_materno", Str(""))
        no == get(paciente, "nombres", Str(""))
        nh == get(paciente, "n_historia", Str(""))
        nc == get(paciente, "n_cama", Str(""))
        raised == paciente.t # "obj"
                  \/ (\E v \in {ap, am, no, nh, nc} : IsErr(v))
                  \/ (\E w \in {ap, am, no} : Truthy(w) /\ ~IsText(w))
    IN  [raised |-> raised,
         runs |-> IF raised THEN <<>>
                  ELSE [i \in 1..5 |->
                          agregar_texto(<<>>, PyStr(<<ap, am, no, nh, nc>>[i]), 9)[1]]]

NoDoc == [raised |-> TRUE, paciente |-> <<>>, col1 |-> <<>>, col2 |-> <<>>, col3 |-> <<>>]

\* generar_docx_desde_json(data): the document handed to doc.save, or
\* raised = TRUE when an exception leaves the function before doc.save.
generar_docx_desde_json(data) ==
    LET t == TablaPaciente(data)
        c1 == Columna1(data)
        c2 == Columna2(data)
        c3 == Columna3(data)
    IN  IF data.t # "obj" \/ t.raised \/ c1.raised \/ c2.raised \/ c3.raised
        THEN NoDoc
        ELSE [raised |-> FALSE, paciente |-> t.runs,
              col1 |-> c1.runs, col2 |-> c2.runs, col3 |-> c3.runs]

(***************************************************************************)
(* Reports handed to the renderer (the data: dict parameter).              *)
(***************************************************************************)
Fechas ==
    { StrC(<<"2", "0", "2", "4", "-", "0", "3", "-", "1", "1", "T", "1", "4", ":", "3", "0", ":", "0", "0">>),
      StrC(<<"2", "0", "2", "4", "-", "0", "3", "-", "1", "1">>),
      StrC(<<"2", "0", "2", "3", "-", "1", "2", "-", "3", "1", " ", "2", "3", ":", "5", "9">>),
      StrC(<<"2", "0", "2", "4", "-", "0", "2", "-", "2", "9", "T", "0", "8", ":", "0", "5", ":", "0", "0">>),
      StrC(<<"2", "0", "2", "3", "-", "0", "2", "-", "2", "9", "T", "0", "8", ":", "0", "5", ":", "0", "0">>),
      StrC(<<"2", "0", "2", "4", "-", "0", "3", "-", "1", "1", "T", "2", "4", ":", "3", "0", ":", "0", "0">>),
      StrC(<<"2", "0", "2", "4", "-", "1", "3", "-", "0", "1", "T", "1", "0", ":", "0", "0", ":", "0", "0">>),
      StrC(<<"1", "1", "/", "0", "3", "/", "2", "0", "2", "4">>),
      StrC(<<"a", "y", "e", "r">>) }

PacienteCompleto ==
    Obj(<< KV("apellido_paterno", Str("Quispe")), KV("apellido_materno", Str("Mamani")),
           KV("nombres", Str("Juan")), KV("edad", Num(81)), KV("sexo", Str("masculino")),
           KV("n_cama", Num(12)), KV("n_historia", Num(4521)) >>)

IngresosCompleto ==
    Obj(<< KV("VO", Num(500)), KV("VP", Num(1000)), KV("AM", Num(50)),
           KV("OTROS", Num(20)), KV("TOTAL", Num(1570)) >>)

IngresosCero ==
    Obj(<< KV("VO", Num(0)), KV("VP", Num(0)), KV("AM", Num(0)),
           KV("OTROS", Num(0)), KV("TOTAL", Num(0)) >>)

EgresosCompleto ==
    Obj(<< KV("D", Num(800)), KV("C", Num(1)), KV("PI", Num(300)),
           KV("OTROS", Num(10)), KV("TOTAL", Num(1111)) >>)

EvolucionCompleta ==
    Obj(<< KV("estado_general", Str("estable")), KV("EFG", Str("hidratado")),
           KV("EFR", Str("")), KV("cuello", Str("movil")),
           KV("torax_anterior", Str("ritmico")), KV("torax_posterior", Str("murmullo conservado")),
           KV("abdomen", Str("blando")), KV("genitourinario", Str("sin sonda")),
           KV("extremidades", Str("sin edema")),
           KV("neurologico", Obj(<< KV("estado", Str("consciente")),
                                    KV("glasgow", Str("15/15")),
                                    KV("foco_motor", Str("sin foco")) >>)) >>)

Informe(fecha, ingresos) ==
    Obj(<< KV("tipo_informe", Str("EVOLUCION_GERIATRICA")),
           KV("paciente", PacienteCompleto),
           KV("fecha_hora", fecha),
           KV("signos_vitales", Obj(<< KV("PA", Str("120/80")), KV("FC", Num(80)),
                                       KV("FR", Num(18)), KV("O2", Num(98)) >>)),
           KV("diagnosticos", List(<< Str("neumonia"), Str("hta") >>)),
           KV("evolucion", EvolucionCompleta),
           KV("ingresos", ingresos),
           KV("egresos", EgresosCompleto),
           KV("ordenes_medicas", List(<< Str("dieta blanda"), Str("control de signos") >>)),
           KV("BH", Str("hb 12")),
           KV("RD", Str("rx sin infiltrados")),
           KV("descripcion_paciente", Str("Paciente de sexo masculino de 81 años")) >>)

InformeCompleto == Informe(StrC(<<"2", "0", "2", "4", "-", "0", "3", "-", "1", "1", "T", "1", "4", ":", "3", "0", ":", "0", "0">>), IngresosCompleto)

\* A report with part of its fields missing and part of them empty.
InformeParcial ==
    Obj(<< KV("paciente", EmptyObj),
           KV("fecha_hora", StrC(<<"2", "0", "2", "3", "-", "0", "2", "-", "2", "9", "T",
                                   "0", "8", ":", "0", "5", ":", "0", "0">>)),
           KV("signos_vitales", Obj(<< KV("PA", Str("110/70")), KV("FC", Num(0)),
                                       KV("O2", Num(95)) >>)),
           KV("diagnosticos", List(<<>>)),
           KV("evolucion", Obj(<< KV("estado_general", Str("")), KV("EFG", Str("hidratado")),
                                  KV("cuello", Str("")), KV("abdomen", Str("blando")),
                                  KV("neurologico", Obj(<< KV("estado", Str("")),
                                                           KV("glasgow", Str("14/15")) >>)) >>)),
           KV("ingresos", Obj(<< KV("VO", Num(0)), KV("VP", Num(250)), KV("TOTAL", Num(250)) >>)),
           KV("egresos", IngresosCero),
           KV("ordenes_medicas", List(<< Str("reposo") >>)),
           KV("RD", Str("")) >>)

InformesBase ==
    { InformeCompleto,
      Informe(StrC(<<"a", "y", "e", "r">>), IngresosCero),
      InformeParcial,
      EmptyObj }

\* The fields that are taken away or emptied, as key paths from the root.
Campos ==
    { <<"paciente">>, <<"fecha_hora">>, <<"signos_vitales">>, <<"diagnosticos">>,
      <<"evolucion">>, <<"ingresos">>, <<"egresos">>, <<"ordenes_medicas">>,
      <<"BH">>, <<"RD">>, <<"descripcion_paciente">> }
    \cup { <<"paciente", k>> : k \in {"apellido_paterno", "apellido_materno", "nombres",
                                      "n_historia", "n_cama"} }
    \cup { <<"signos_vitales", k>> : k \in {"PA", "FC", "FR", "O2"} }
    \cup { <<"evolucion", k>> : k \in {"estado_general", "EFG", "cuello", "torax_anterior",
                                       "torax_posterior", "abdomen", "genitourinario",
                                       "extremidades", "neurologico"} }
    \cup { <<"evolucion", "neurologico", k>> : k \in {"estado", "glasgow", "foco_motor"} }
    \cup { <<"ingresos", k>> : k \in {"VO", "VP", "AM", "OTROS", "TOTAL"} }
    \cup { <<"egresos", k>> : k \in {"D", "C", "PI", "OTROS", "TOTAL"} }

Missing == [t |-> "missing"]

RECURSIVE GetPath(_, _)
GetPath(d, path) ==
    IF path = <<>> THEN d
    ELSE IF d.t # "obj" \/ ~HasKey(d, Head(path)) THEN Missing
    ELSE GetPath(Lookup(d, Head(path)), Tail(path))

\* The report without the key at the end of path.
RECURSIVE DelPath(_, _)
DelPath(d, path) ==
    IF Len(path) = 1
    THEN Obj(SelectSeq(d.o, LAMBDA e : e.k # path[1]))
    ELSE Obj([i \in 1..Len(d.o) |->
                IF d.o[i].k = path[1]
                THEN KV(d.o[i].k, DelPath(d.o[i].v, Tail(path)))
                ELSE d.o[i]])

\* The report with the value at path replaced by v.
RECURSIVE SetPath(_, _, _)
SetPath(d, path, v) ==
    Obj([i \in 1..Len(d.o) |->
           IF d.o[i].k = path[1]
           THEN KV(d.o[i].k, IF Len(path) = 1 THEN v ELSE SetPath(d.o[i].v, Tail(path), v))
           ELSE d.o[i]])

\* The empty value of a value's own type: "", 0, {} or [].
Vacio(v) ==
    CASE v.t = "str"  -> IF "c" \in DOMAIN v THEN StrC(<<>>) ELSE Str("")
      [] v.t = "int"  -> Num(0)
      [] v.t = "obj"  -> EmptyObj
      [] v.t = "list" -> List(<<>>)

(***************************************************************************)
(* The pydantic schema (lines 29-90): a payload conforms to a model when   *)
(* it is an object carrying every required field with the field's type.    *)
(***************************************************************************)
EsStr(v) == v.t = "str"
EsInt(v) == v.t = "int"
EsListaStr(v) == v.t = "list" /\ \A i \in 1..Len(v.l) : EsStr(v.l[i])

Requeridos(d, ks, Tipo(_)) ==
    /\ d.t = "obj"
    /\ \A k \in ks : HasKey(d, k) /\ Tipo(Lookup(d, k))

Paciente(d) ==
    /\ Requeridos(d, {"apellido_paterno", "apellido_materno", "nombres", "sexo"}, EsStr)
    /\ Requeridos(d, {"edad", "n_cama", "n_historia"}, EsInt)

SignosVitales(d) ==
    /\ Requeridos(d, {"PA"}, EsStr)
    /\ Requeridos(d, {"FC", "FR", "O2"}, EsInt)

Neurologico(d) == Requeridos(d, {"estado", "glasgow", "foco_motor"}, EsStr)

Evolucion(d) ==
    /\ Requeridos(d, {"estado_general", "EFG", "cuello", "torax_anterior", "torax_posterior",
                      "abdomen", "genitourinario", "extremidades"}, EsStr)
    /\ (HasKey(d, "EFR") => Lookup(d, "EFR").t \in {"str", "null"})
    /\ Requeridos(d, {"neurologico"}, Neurologico)

Ingresos(d) == Requeridos(d, {"VO", "VP", "AM", "OTROS", "TOTAL"}, EsInt)

Egresos(d) == Requeridos(d, {"D", "C", "PI", "OTROS", "TOTAL"}, EsInt)

EsTipoInforme(v) == v.t = "str" /\ "s" \in DOMAIN v /\ v.s \in {"EVOLUCION_GERIATRICA"}

InformeGeriatrico(d) ==
    /\ Requeridos(d, {"tipo_informe"}, EsTipoInforme)
    /\ Requeridos(d, {"paciente"}, Paciente)
    /\ Requeridos(d, {"fecha_hora", "BH", "RD", "descripcion_paciente"}, EsStr)
    /\ Requeridos(d, {"signos_vitales"}, SignosVitales)
    /\ Requeridos(d, {"diagnosticos", "ordenes_medicas"}, EsListaStr)
    /\ Requeridos(d, {"evolucion"}, Evolucion)
    /\ Requeridos(d, {"ingresos"}, Ingresos)
    /\ Requeridos(d, {"egresos"}, Egresos)

(***************************************************************************)
(* The endpoint: procesar_informe, one execution per concurrent request.   *)
(***************************************************************************)
NumSolicitudes == 2
Solicitudes == 1..NumSolicitudes

VARIABLES
    pc,      \* pc[r]: the next step of request r
    req,     \* req[r]: request.files / request.form of request r
    loc,     \* loc[r]: the locals filepath, texto_crudo, data_json
    resp,    \* resp[r]: the HTTP response returned to r
    pasos,   \* pasos[r]: the pipeline steps r has attempted
    fs,      \* the file system: path -> content
    data,    \* the report under rendering
    doc,     \* the document rendered from data
    edits    \* number of changes made to data

vars == <<pc, req, loc, resp, pasos, fs, data, doc, edits>>
varsEndpoint == <<pc, req, loc, resp, pasos, fs>>
varsRender == <<data, doc, edits>>

TipoInforme == {"EVOLUCION_GERIATRICA"}

\* An unknown report type silently accepted.
TipoValidoMut(tipo_informe) == TRUE

\* TipoInforme(tipo_informe) succeeds (no ValueError).
TipoValido(tipo_informe) == tipo_informe \in TipoInforme

UPLOAD_FOLDER == "uploads"
file_path == <<"informe.docx">>

\* Report types and file names a client may send.
TiposEnviados == {"EVOLUCION_GERIATRICA", "EPICRISIS"}
Filenames == { <<"a", ".", "w">>, <<".", ".", "/", "a", ".", "w">>, <<>> }

(* werkzeug.utils.secure_filename on the characters of the name: path      *)
(* separators become spaces, whitespace-separated parts are joined with    *)
(* "_", characters outside [A-Za-z0-9_.-] are dropped and leading and      *)
(* trailing "." and "_" are stripped.                                      *)
SafeChars == {"a", "w", ".", "_", "-"}

RECURSIVE StripL(_, _)
StripL(c, set) == IF c # <<>> /\ Head(c) \in set THEN StripL(Tail(c), set) ELSE c

RECURSIVE StripR(_, _)
StripR(c, set) ==
    IF c # <<>> /\ c[Len(c)] \in set THEN StripR(SubSeq(c, 1, Len(c) - 1), set) ELSE c

RECURSIVE JoinWords(_)
JoinWords(c) ==
    IF c = <<>> THEN <<>>
    ELSE IF Head(c) = " " THEN <<"_">> \o JoinWords(StripL(c, {" "}))
    ELSE <<Head(c)>> \o JoinWords(Tail(c))

secure_filename(name) ==
    LET spaced == [i \in 1..Len(name) |-> IF name[i] = "/" THEN " " ELSE name[i]]
        joined == JoinWords(StripR(StripL(spaced, {" "}), {" "}))
        ascii  == SelectSeq(joined, LAMBDA ch : ch \in SafeChars)
    IN  StripR(StripL(ascii, {".", "_"}), {".", "_"})

\* os.path.join(UPLOAD_FOLDER, filename)
PathJoin(folder, filename) == <<folder, "/">> \o filename

\* base64.b64encode(doc_bytes).decode("utf-8")
b64encode(bytes) == [b64 |-> bytes]

\* The bytes doc.save writes for a document.
DocxBytes(d) == [docx |-> d]

\* The audio file request r uploads.
Audio(r) == [audio |-> r]

(* Payloads the structuring service may answer with (response.text after   *)
(* json.loads): a report that conforms to InformeGeriatrico, one without   *)
(* its required fields, and one with an object field given as "" (a wrong  *)
(* type).                                                                  *)
Payloads ==
    { InformeCompleto,
      EmptyObj,
      SetPath(InformeCompleto, <<"ingresos">>, Str("")) }

\* jsonify({"error": ...}), status
ErrorResp(status, msg) ==
    [status |-> status, body |-> "json", error |-> msg,
     json_generado |-> Missing, documento_base64 |-> Missing]

\* Flask's answer to an exception no handler catches.
Unhandled ==
    [status |-> 500, body |-> "html", error |-> "Internal Server Error",
     json_generado |-> Missing, documento_base64 |-> Missing]

NoResp ==
    [status |-> 0, body |-> "", error |-> "",
     json_generado |-> Missing, documento_base64 |-> Missing]

NoReq == [audio |-> FALSE, tipo |-> FALSE, tipo_informe |-> "", filename |-> <<>>]
NoLoc == [filepath |-> <<>>, texto_crudo |-> 0, data_json |-> Missing]

\* return response: the locals of the call are gone once it has returned.
Return(r, response) ==
    /\ resp' = [resp EXCEPT ![r] = response]
    /\ pc' = [pc EXCEPT ![r] = "fin"]
    /\ loc' = [loc EXCEPT ![r] = NoLoc]

\* Lines 325-332: the request arrives and its form is validated.  The form
\* field is read only when both parts are there (line 328).
Validar(r) ==
    /\ pc[r] = "inicio"
    /\ \E audio \in BOOLEAN, tipo \in BOOLEAN :
       \E tipo_informe \in (IF audio /\ tipo THEN TiposEnviados ELSE {""}) :
          /\ req' = [req EXCEPT ![r] = [audio |-> audio, tipo |-> tipo,
                                        tipo_informe |-> tipo_informe,
                                        filename |-> <<>>]]
          /\ IF ~audio \/ ~tipo
             THEN Return(r, ErrorResp(400, "Faltan datos: audio o tipo_informe"))
             ELSE IF ~TipoValido(tipo_informe)
             THEN Return(r, ErrorResp(400, "Tipo de informe inválido"))
             ELSE /\ pc' = [pc EXCEPT ![r] = "guardar"]
                  /\ UNCHANGED <<resp, loc>>
    /\ UNCHANGED <<pasos, fs>>
    /\ UNCHANGED varsRender

\* Lines 334-337: audio.filename is read and audio.save(filepath) writes the
\* upload.  An empty secure name makes filepath the upload directory itself,
\* and the open() inside save raises.
Guardar(r) ==
    /\ pc[r] = "guardar"
    /\ \E name \in Filenames :
       LET filename == secure_filename(name)
           filepath == PathJoin(UPLOAD_FOLDER, filename)
       IN  /\ req' = [req EXCEPT ![r].filename = name]
           /\ pasos' = [pasos EXCEPT ![r] = @ \cup {"guardar"}]
           /\ IF filename = <<>>
              THEN /\ Return(r, Unhandled)
                   /\ fs' = fs
              ELSE /\ fs' = [q \in DOMAIN fs \cup {filepath} |->
                               IF q = filepath THEN Audio(r) ELSE fs[q]]
                   /\ loc' = [loc EXCEPT ![r].filepath = filepath]
                   /\ pc' = [pc EXCEPT ![r] = "transcribir"]
                   /\ resp' = resp
    /\ UNCHANGED varsRender

\* Lines 340-341, 343-344: model_whisper.transcribe(filepath) reads the file
\* now at filepath; it fails when the file is gone, and may fail otherwise.
Transcribir(r) ==
    /\ pc[r] = "transcribir"
    /\ pasos' = [pasos EXCEPT ![r] = @ \cup {"transcribir"}]
    /\ IF loc[r].filepath \notin DOMAIN fs
       THEN Return(r, ErrorResp(500, "Error al transcribir audio"))
       ELSE \E ok \in BOOLEAN :
              IF ok
              THEN /\ loc' = [loc EXCEPT ![r].texto_crudo = fs[loc[r].filepath].audio]
                   /\ pc' = [pc EXCEPT ![r] = "borrar"]
                   /\ resp' = resp
              ELSE Return(r, ErrorResp(500, "Error al transcribir audio"))
    /\ UNCHANGED <<req, fs>>
    /\ UNCHANGED varsRender

\* Lines 342-344: os.remove(filepath), inside the same try.
Borrar(r) ==
    /\ pc[r] = "borrar"
    /\ IF loc[r].filepath \notin DOMAIN fs
       THEN /\ Return(r, ErrorResp(500, "Error al transcribir audio"))
            /\ fs' = fs
       ELSE /\ fs' = [q \in DOMAIN fs \ {loc[r].filepath} |-> fs[q]]
            /\ pc' = [pc EXCEPT ![r] = "estructurar"]
            /\ UNCHANGED <<resp, loc>>
    /\ UNCHANGED <<req, pasos>>
    /\ UNCHANGED varsRender

\* Lines 365-375: the generate_content call and json.loads(response.text).
Estructurar(r) ==
    /\ pc[r] = "estructurar"
    /\ pasos' = [pasos EXCEPT ![r] = @ \cup {"estructurar"}]
    /\ \E resultado \in {"falla", "no_json", "json"} :
         IF resultado = "json"
         THEN \E payload \in Payloads :
                /\ loc' = [loc EXCEPT ![r].data_json = payload]
                /\ pc' = [pc EXCEPT ![r] = "renderizar"]
                /\ resp' = resp
         ELSE Return(r, ErrorResp(500, "Error al generar respuesta con Gemini"))
    /\ UNCHANGED <<req, fs>>
    /\ UNCHANGED varsRender

\* Renderizar answering with the report alone when rendering fails.
RenderizarMut(r) ==
    /\ pc[r] = "renderizar"
    /\ pasos' = [pasos EXCEPT ![r] = @ \cup {"renderizar"}]
    /\ LET d == generar_docx_desde_json(loc[r].data_json)
       IN  IF d.raised
           THEN /\ Return(r, [status |-> 200, body |-> "json", error |-> "",
                              json_generado |-> loc[r].data_json,
                              documento_base64 |-> Missing])
                /\ fs' = fs
           ELSE /\ fs' = [q \in DOMAIN fs \cup {file_path} |->
                            IF q = file_path THEN DocxBytes(d) ELSE fs[q]]
                /\ pc' = [pc EXCEPT ![r] = "leer"]
                /\ UNCHANGED <<resp, loc>>
    /\ UNCHANGED req
    /\ UNCHANGED varsRender

\* Lines 376-377: generar_docx_desde_json(data_json, nombre_archivo=file_path);
\* doc.save(nombre_archivo) at line 318 writes the file.
Renderizar(r) ==
    /\ pc[r] = "renderizar"
    /\ pasos' = [pasos EXCEPT ![r] = @ \cup {"renderizar"}]
    /\ LET d == generar_docx_desde_json(loc[r].data_json)
       IN  IF d.raised
           THEN /\ Return(r, ErrorResp(500, "Error al generar respuesta con Gemini"))
                /\ fs' = fs
           ELSE /\ fs' = [q \in DOMAIN fs \cup {file_path} |->
                            IF q = file_path THEN DocxBytes(d) ELSE fs[q]]
                /\ pc' = [pc EXCEPT ![r] = "leer"]
                /\ UNCHANGED <<resp, loc>>
    /\ UNCHANGED req
    /\ UNCHANGED varsRender

\* Lines 379-386: the file is read back, encoded and returned with the report.
\* (Line 389, return response.text, follows a return and is never executed.)
Responder(r) ==
    /\ pc[r] = "leer"
    /\ LET doc_bytes  == fs[file_path]
           doc_base64 == b64encode(doc_bytes)
       IN  Return(r, [status |-> 200, body |-> "json", error |-> "",
                      json_generado |-> loc[r].data_json,
                      documento_base64 |-> doc_base64])
    /\ UNCHANGED <<req, pasos, fs>>
    /\ UNCHANGED varsRender

procesar_informe(r) ==
    \/ Validar(r)
    \/ Guardar(r)
    \/ Transcribir(r)
    \/ Borrar(r)
    \/ Estructurar(r)
    \/ Renderizar(r)
    \/ Responder(r)

InitEndpoint ==
    /\ pc = [r \in Solicitudes |-> "inicio"]
    /\ req = [r \in Solicitudes |-> NoReq]
    /\ loc = [r \in Solicitudes |-> NoLoc]
    /\ resp = [r \in Solicitudes |-> NoResp]
    /\ pasos = [r \in Solicitudes |-> {}]
    /\ fs = << >>

Init ==
    /\ InitEndpoint
    /\ data = InformeCompleto
    /\ doc = generar_docx_desde_json(data)
    /\ edits = 0

Next == \E r \in Solicitudes : procesar_informe(r)

Spec == Init /\ [][Next]_vars

(***************************************************************************)
(* The renderer on its own: a report is rendered, then fields are taken    *)
(* away or emptied, or the timestamp changed, and it is rendered again.    *)
(***************************************************************************)
MaxEdits == 1

Render(d) ==
    /\ data' = d
    /\ doc' = generar_docx_desde_json(d)
    /\ edits' = edits + 1
    /\ UNCHANGED varsEndpoint

\* The key at path is absent from the report (data.get falls to its default).
Omitir(path) ==
    /\ edits < MaxEdits
    /\ GetPath(data, path) # Missing
    /\ Render(DelPath(data, path))

\* The value at path is the empty value of its type: "", 0, {} or [].
Vaciar(path) ==
    /\ edits < MaxEdits
    /\ GetPath(data, path) # Missing
    /\ GetPath(data, path) # Vacio(GetPath(data, path))
    /\ Render(SetPath(data, path, Vacio(GetPath(data, path))))

\* fecha_hora is another string.
CambiarFecha(fecha) ==
    /\ edits < MaxEdits
    /\ GetPath(data, <<"fecha_hora">>) # Missing
    /\ GetPath(data, <<"fecha_hora">>) # fecha
    /\ Render(SetPath(data, <<"fecha_hora">>, fecha))

InitRender ==
    /\ InitEndpoint
    /\ data \in InformesBase
    /\ doc = generar_docx_desde_json(data)
    /\ edits = 0

NextRender ==
    \/ \E path \in Campos : Omitir(path)
    \/ \E path \in Campos : Vaciar(path)
    \/ \E fecha \in Fechas : CambiarFecha(fecha)

SpecRender == InitRender /\ [][NextRender]_vars

(***************************************************************************)
(* Properties of the endpoint, checked under Spec.                         *)
(***************************************************************************)

\* C1: the documento_base64 a request returns is the document rendered from
\* that same request's json_generado, whatever the interleaving.
C1_DocumentoPropio ==
    \A r \in Solicitudes :
        resp[r].status = 200 =>
            resp[r].documento_base64 =
                b64encode(DocxBytes(generar_docx_desde_json(resp[r].json_generado)))

\* C2: once a request that got past validation has its response, neither the
\* upload file saved for it nor the rendered-document file written for it exists.
C2_SinArchivosTransitorios ==
    \A r \in Solicitudes :
        (pc[r] = "fin" /\ "guardar" \in pasos[r]) =>
            /\ PathJoin(UPLOAD_FOLDER, secure_filename(req[r].filename)) \notin DOMAIN fs
            /\ (resp[r].status = 200 => file_path \notin DOMAIN fs)

\* C3: a request whose tipo_informe is not a member of TipoInforme is answered
\* with status 400 before any later step: nothing saved, transcribed,
\* structured or rendered for it.
C3_TipoRechazado ==
    \A r \in Solicitudes :
        (pc[r] # "inicio" /\ req[r].audio /\ req[r].tipo
            /\ req[r].tipo_informe \notin TipoInforme) =>
            /\ pc[r] = "fin"
            /\ resp[r].status = 400
            /\ pasos[r] = {}
            /\ \A q \in DOMAIN fs : fs[q] # Audio(r)

C3_Witness ==
    \E r \in Solicitudes :
        /\ req[r].audio /\ req[r].tipo /\ req[r].tipo_informe = "EPICRISIS"
        /\ pc[r] = "fin" /\ resp[r].status = 400
        /\ \E o \in Solicitudes : o # r /\ "renderizar" \in pasos[o]

Exito(response) ==
    /\ response.status = 200 /\ response.body = "json" /\ response.error = ""
    /\ response.json_generado # Missing
    /\ response.documento_base64 # Missing

Fallo(response) ==
    /\ response.status >= 400 /\ response.body \in {"json", "html"} /\ response.error # ""
    /\ response.json_generado = Missing
    /\ response.documento_base64 = Missing

\* C4: every finished request has either the report together with the document,
\* or an error with an HTTP error status and neither report nor document.
C4_TodoONada ==
    \A r \in Solicitudes :
        pc[r] = "fin" => (Exito(resp[r]) \/ Fallo(resp[r]))

C4_Witness ==
    \E r, o \in Solicitudes :
        /\ pc[r] = "fin" /\ "renderizar" \in pasos[r] /\ Fallo(resp[r])
        /\ pc[o] = "fin" /\ Exito(resp[o])

\* C5: a payload that does not conform to InformeGeriatrico is neither rendered
\* nor returned as json_generado.
C5_SoloConforme ==
    \A r \in Solicitudes :
        /\ pc[r] = "leer" => InformeGeriatrico(loc[r].data_json)
        /\ resp[r].status = 200 => InformeGeriatrico(resp[r].json_generado)

\* C10: from its save to the end of its transcription a request's upload path
\* holds that request's own audio, and the audio it transcribes is its own.
C10_AudioPropio ==
    \A r \in Solicitudes :
        /\ pc[r] = "transcribir" =>
              /\ loc[r].filepath \in DOMAIN fs
              /\ fs[loc[r].filepath] = Audio(r)
        /\ loc[r].texto_crudo # 0 => loc[r].texto_crudo = r

(***************************************************************************)
(* Properties of the renderer, checked under SpecRender.                   *)
(***************************************************************************)
NoVacio(v) == IF v = Missing THEN FALSE ELSE Truthy(v)

\* C6: rendering a report in which fields are missing or empty never raises.
C6_NuncaLanza == ~doc.raised

C6_Witness ==
    /\ GetPath(data, <<"evolucion", "neurologico">>) = Missing
    /\ GetPath(data, <<"evolucion", "cuello">>) = Str("")
    /\ GetPath(data, <<"paciente">>) = EmptyObj
    /\ GetPath(data, <<"BH">>) = Missing
    /\ ~doc.raised

\* The texts of the runs of p.
Textos(p) == [i \in 1..Len(p) |-> p[i].text]

\* The runs of p from the bold run texto up to the next bold run; none if absent.
Seccion(p, texto) ==
    IF \E i \in 1..Len(p) : p[i].bold /\ p[i].text = texto
    THEN LET i == CHOOSE i \in 1..Len(p) : p[i].bold /\ p[i].text = texto
             fin == IF \E j \in (i + 1)..Len(p) : p[j].bold
                    THEN (CHOOSE j \in (i + 1)..Len(p) :
                            p[j].bold /\ \A k \in (i + 1)..(j - 1) : ~p[k].bold) - 1
                    ELSE Len(p)
         IN  SubSeq(p, i + 1, fin)
    ELSE <<>>

Encabezados(p, texto) == {i \in 1..Len(p) : p[i].bold /\ p[i].text = texto}

\* The non-zero items of a FluidBalance, in its field order, as "KEY: value" lines.
LineasNoCero(balance) ==
    LET items == IF balance = Missing THEN <<>> ELSE balance.o
        nz == SelectSeq(items, LAMBDA e : e.v.n # 0)
    IN  [i \in 1..Len(nz) |-> nz[i].k \o ": " \o ToString(nz[i].v.n) \o "\n"]

\* C7: each balance header is printed exactly when one of its quantities is
\* non-zero, and under it stand exactly its non-zero fields, once each, in field
\* order; a zero field is never a line.
C7_Balance ==
    LET ing == LineasNoCero(GetPath(data, <<"ingresos">>))
        egr == LineasNoCero(GetPath(data, <<"egresos">>))
    IN  /\ Cardinality(Encabezados(doc.col3, "INGRESOS:\n")) = (IF ing # <<>> THEN 1 ELSE 0)
        /\ Cardinality(Encabezados(doc.col3, "\nEGRESOS:\n")) = (IF egr # <<>> THEN 1 ELSE 0)
        /\ Textos(Seccion(doc.col3, "INGRESOS:\n")) = ing
        /\ Textos(Seccion(doc.col3, "\nEGRESOS:\n")) = egr
        /\ \A i \in 1..Len(doc.col3) :
             doc.col3[i].text \notin {k \o ": 0\n" : k \in {"VO", "VP", "AM", "D", "C", "PI",
                                                          "OTROS", "TOTAL"}}

C7_Witness ==
    /\ GetPath(data, <<"ingresos", "VO">>) = Num(0)
    /\ GetPath(data, <<"ingresos", "TOTAL">>) = Missing
    /\ GetPath(data, <<"egresos">>) = IngresosCero
    /\ Textos(Seccion(doc.col3, "INGRESOS:\n")) = <<"VP: 250\n">>
    /\ Encabezados(doc.col3, "\nEGRESOS:\n") = {}

\* The texts of the bold runs of p, in order.
Etiquetas(p) == Textos(SelectSeq(p, LAMBDA run : run.bold))

\* The labels of the vital signs that are present, in the order PA, FC, FR, O2.
VitalesPresentes(d) ==
    SelectSeq(<<"PA", "FC", "FR", "O2">>,
              LAMBDA k : NoVacio(GetPath(d, <<"signos_vitales", k>>)))

DiasSemana == {"Lunes", "Martes", "Miércoles", "Jueves", "Viernes", "Sábado", "Domingo"}

\* C8: with a fecha_hora that does not parse (or is absent or empty) column 1 is
\* the present vital signs alone, in the order PA, FC, FR, O2, and nothing is
\* raised; with one that parses, weekday, date and time come first, in that order.
C8_Fecha ==
    LET dt == fromisoformat(IF GetPath(data, <<"fecha_hora">>) = Missing
                            THEN Str("") ELSE GetPath(data, <<"fecha_hora">>))
        vit == VitalesPresentes(data)
        etq == [i \in 1..Len(vit) |-> vit[i] \o ": "]
        c == doc.col1
    IN  /\ ~doc.raised
        /\ ~dt.ok => /\ Etiquetas(c) = etq
                     /\ Len(c) = 2 * Len(vit)
        /\ dt.ok  => /\ Len(c) = 3 + 2 * Len(vit)
                     /\ c[1].bold /\ c[1].text \in {dia \o "\n" : dia \in DiasSemana}
                     /\ ~c[2].bold
                     /\ c[2].text = Pad2(dt.d) \o "/" \o Pad2(dt.m) \o "/" \o Pad2(dt.y % 100) \o "\n"
                     /\ ~c[3].bold
                     /\ c[3].text = Pad2(dt.H) \o ":" \o Pad2(dt.M) \o "\n\n"
                     /\ Etiquetas(SubSeq(c, 4, Len(c))) = etq
        /\ GetPath(data, <<"fecha_hora">>) =
              StrC(<<"2", "0", "2", "4", "-", "0", "3", "-", "1", "1", "T",
                     "1", "4", ":", "3", "0", ":", "0", "0">>)
           => Textos(SubSeq(c, 1, 3)) = <<"Lunes\n", "11/03/24\n", "14:30\n\n">>

C8_Witness ==
    /\ GetPath(data, <<"fecha_hora">>) =
          StrC(<<"2", "0", "2", "3", "-", "0", "2", "-", "2", "9", "T",
                 "0", "8", ":", "0", "5", ":", "0", "0">>)
    /\ GetPath(data, <<"signos_vitales", "PA">>) = Missing
    /\ Textos(doc.col1) = <<"O2: ", "95\n">>

\* The blocks of column 2, by the bold label that opens each; the descriptive
\* sentence, which has no label, is the non-bold run that opens the column.
OrdenFijo ==
    << "DESCRIPCION", "DIAGNÓSTICOS:\n", "S: ", "Cuello: ", "Tórax anterior: ",
       "Tórax posterior: ", "Abdomen: ", "Genitourinario: ", "Extremidades: ",
       "\nEFG: ", "\nENB: ", "\nBH: ", "\nRD: " >>

Bloques(p) ==
    (IF p # <<>> /\ ~p[1].bold THEN <<"DESCRIPCION">> ELSE <<>>) \o Etiquetas(p)

\* The input of a block: the value(s) of the report it is printed from.
EntradaDe(b, d) ==
    CASE b = "DESCRIPCION"       -> <<GetPath(d, <<"descripcion_paciente">>)>>
      [] b = "DIAGNÓSTICOS:\n"   -> <<GetPath(d, <<"diagnosticos">>)>>
      [] b = "S: "               -> <<GetPath(d, <<"evolucion", "estado_general">>)>>
      [] b = "Cuello: "          -> <<GetPath(d, <<"evolucion", "cuello">>)>>
      [] b = "Tórax anterior: "  -> <<GetPath(d, <<"evolucion", "torax_anterior">>)>>
      [] b = "Tórax posterior: " -> <<GetPath(d, <<"evolucion", "torax_posterior">>)>>
      [] b = "Abdomen: "         -> <<GetPath(d, <<"evolucion", "abdomen">>)>>
      [] b = "Genitourinario: "  -> <<GetPath(d, <<"evolucion", "genitourinario">>)>>
      [] b = "Extremidades: "    -> <<GetPath(d, <<"evolucion", "extremidades">>)>>
      [] b = "\nEFG: "           -> <<GetPath(d, <<"evolucion", "EFG">>)>>
      [] b = "\nENB: "           -> <<GetPath(d, <<"evolucion", "neurologico", "estado">>),
                                      GetPath(d, <<"evolucion", "neurologico", "foco_motor">>),
                                      GetPath(d, <<"evolucion", "neurologico", "glasgow">>)>>
      [] b = "\nBH: "            -> <<GetPath(d, <<"BH">>)>>
      [] b = "\nRD: "            -> <<GetPath(d, <<"RD">>)>>

HayEntrada(b, d) == \E i \in 1..Len(EntradaDe(b, d)) : NoVacio(EntradaDe(b, d)[i])

C9_Orden ==
    Bloques(doc.col2) = SelectSeq(OrdenFijo, LAMBDA b : HayEntrada(b, data))

\* After a field is emptied or taken away, the blocks whose own input did not
\* change are the same blocks in the same order.
C9_Vecinos ==
    LET Igual(b) == EntradaDe(b, data') = EntradaDe(b, data)
    IN  SelectSeq(Bloques(doc'.col2), Igual) = SelectSeq(Bloques(doc.col2), Igual)

\* C9: the blocks of column 2 are the blocks of the fixed order whose input is
\* not empty, in that order, and emptying or removing one field removes its own
\* block and leaves every other block present and in place.
C9_Bloques == [](C9_Orden) /\ [][C9_Vecinos]_vars

C9_Witness ==
    /\ GetPath(data, <<"evolucion", "cuello">>) = Str("")
    /\ GetPath(data, <<"evolucion", "neurologico", "foco_motor">>) = Str("sin foco")
    /\ Bloques(doc.col2) =
          << "DESCRIPCION", "DIAGNÓSTICOS:\n", "S: ", "Tórax anterior: ",
             "Tórax posterior: ", "Abdomen: ", "Genitourinario: ", "Extremidades: ",
             "\nEFG: ", "\nENB: ", "\nBH: ", "\nRD: " >>

====
